---- MODULE Spec2Model ----
(***************************************************************************)
(* A model of the metric registry, the evaluation-dependency resolver and  *)
(* the condition/function composition layer of great_expectations          *)
(* (expectations/metrics/metric_provider.py, column_map_metric.py), of the *)
(* construction of an ExecutionEnvironment (execution_environment.py) and  *)
(* of the key-value stores (data_context/store/store.py).                  *)
(***************************************************************************)
EXTENDS Integers, Sequences, FiniteSets, TLC

VARIABLES
    metric,       \* the metric configuration the evaluation driver was asked for
    providerCls,  \* the provider class whose get_evaluation_dependencies is used
    pending,      \* configurations the driver still has to resolve, with their depth
    cur,          \* the configuration being resolved, with its depth, or NoWork
    resolvedOf,   \* the work item of the last resolver call, or NoWork
    deps,         \* the mapping the last resolver call returned
    registry,     \* the metric registry: (metric name, engine) -> entry
    classCount,   \* how many provider classes have been defined
    body,         \* the class statement being executed, or NoBody
    lastDecl,     \* the last decorator call of the class body and what it did
    lastDef,      \* what the registration hook of the last class definition did
    dataset,      \* the values of the column of the table under evaluation
    authored,     \* the author's function the composed provider wraps
    partial,      \* the last call of a composed provider and what it returned
    derived,      \* the last call of a derived-metric provider and what it yielded
    envObj,       \* the ExecutionEnvironment: its constructor's arguments, or NoEnv
    connectorDict, \* the dict object the environment's _data_connectors refers to
    configRead,   \* what the last read of the config property returned
    store,        \* the store: its own serialization_type
    backend,      \* the store backend: key -> serialized value
    recent,       \* per key, the most recent set call that returned
    lastSet,      \* the last set call and how far it got
    lastGet       \* the last get call and what it returned

depsVars == <<metric, providerCls, pending, cur, resolvedOf, deps>>
regVars == <<registry, classCount, body, lastDecl, lastDef>>
evalVars == <<dataset, authored, partial, derived>>
envVars == <<envObj, connectorDict, configRead>>
storeVars == <<store, backend, recent, lastSet, lastGet>>
periVars == <<envVars, storeVars>>
vars == <<depsVars, regVars, evalVars, periVars>>

(***************************************************************************)
(* Bounds                                                                  *)
(***************************************************************************)
MaxSuffixes == 2
MaxDepth == 3
MaxClasses == 1
MaxRows == 2
MaxPartial == 1
MaxConnectors == 2
MaxStoreKeys == 1

(***************************************************************************)
(* Metric names.  A name is a Python str; it is modelled as the sequence   *)
(* of the pieces it is the concatenation of.  The pieces are chosen so     *)
(* that str.endswith with any of the suffixes the code tests holds of the  *)
(* characters exactly when it holds of the last piece.                     *)
(***************************************************************************)
MetricPartialFunctionTypes ==
    {"map_fn", "map_condition_fn", "window_fn", "window_condition_fn", "aggregate_fn"}

DerivedSuffixes ==
    {".unexpected_count", ".unexpected_values", ".unexpected_index_list",
     ".unexpected_value_counts", ".unexpected_rows"}

SuffixPieces == DerivedSuffixes \cup MetricPartialFunctionTypes

\* a base name, or none, followed by suffixes
Names ==
    {base \o tail : base \in {<<>>, <<"col">>},
                    tail \in UNION {[1..n -> SuffixPieces] : n \in 0..MaxSuffixes}}
    \ {<<>>}

\* str.endswith(suffix) for a suffix that is one piece
EndsWith(name, suffix) == Len(name) >= 1 /\ name[Len(name)] = suffix

\* metric_name[: -len(suffix)]: the name without its last len(suffix) characters,
\* which are its last piece wherever the code takes this slice
StripSuffix(name, suffix) == SubSeq(name, 1, Len(name) - 1)

(***************************************************************************)
(* Keyword mappings (Python dicts with str keys)                           *)
(***************************************************************************)
KwargMaps(keys, vals) == UNION {[s -> vals] : s \in SUBSET keys}

EmptyKw == [k \in {} |-> 0]

\* {k: v for k, v in d.items() if k != key}
WithoutKey(d, key) == [k \in (DOMAIN d) \ {key} |-> d[k]]

ResolverDomainKwargs == KwargMaps({"column"}, {"a"})
ResolverValueKwargs == KwargMaps({"result_format", "threshold"}, {5})

MetricConfiguration(name, domainKw, valueKw) ==
    [name |-> name, domain |-> domainKw, value |-> valueKw]

MetricConfigurations ==
    {MetricConfiguration(n, d, v) :
        n \in Names, d \in ResolverDomainKwargs, v \in ResolverValueKwargs}

NoMetric == MetricConfiguration(<<>>, EmptyKw, EmptyKw)

\* a configuration the evaluation driver has to resolve, and how many resolver
\* calls lead from the requested configuration to it
Work(m, depth) == [cfg |-> m, depth |-> depth]

NoWork == Work(NoMetric, 0)

(***************************************************************************)
(* The dependency resolver                                                 *)
(***************************************************************************)
\* dict.update on mappings whose values are MetricConfigurations
nested_update(d, u) ==
    [k \in (DOMAIN d) \cup (DOMAIN u) |-> IF k \in DOMAIN u THEN u[k] ELSE d[k]]

\* MetricProvider._get_evaluation_dependencies
BaseGetEvaluationDependencies(m) == EmptyKw

\* a resolver that strips the suffix but passes the value kwargs on unfiltered
MapGetEvaluationDependencies_KeepsResultFormat(m) ==
    IF \E s \in DerivedSuffixes : EndsWith(m.name, s)
    THEN [r \in {"unexpected_condition"} |->
            MetricConfiguration(SubSeq(m.name, 1, Len(m.name) - 1), m.domain, m.value)]
    ELSE EmptyKw

\* MapMetricProvider._get_evaluation_dependencies
MapGetEvaluationDependencies(m) ==
    LET base_metric_value_kwargs == WithoutKey(m.value, "result_format")
        Dep(suffix) ==
            [r \in {"unexpected_condition"} |->
                MetricConfiguration(StripSuffix(m.name, suffix), m.domain,
                                    base_metric_value_kwargs)]
    IN  IF EndsWith(m.name, ".unexpected_count") THEN Dep(".unexpected_count")
        ELSE IF EndsWith(m.name, ".unexpected_values") THEN Dep(".unexpected_values")
        ELSE IF EndsWith(m.name, ".unexpected_index_list")
            THEN Dep(".unexpected_index_list")
        ELSE IF EndsWith(m.name, ".unexpected_value_counts")
            THEN Dep(".unexpected_value_counts")
        ELSE IF EndsWith(m.name, ".unexpected_rows") THEN Dep(".unexpected_rows")
        ELSE EmptyKw

ProviderClasses == {"MetricProvider", "MapMetricProvider"}

ChildDependencies(cls, m) ==
    IF cls = "MapMetricProvider" THEN MapGetEvaluationDependencies(m)
    ELSE BaseGetEvaluationDependencies(m)

\* a resolver that adds the metric_partial_fn dependency whatever the name
GetEvaluationDependencies_AlwaysPartial(cls, m) ==
    nested_update([r \in {"metric_partial_fn"} |->
                        MetricConfiguration(m.name, m.domain, m.value)],
                  ChildDependencies(cls, m))

\* MetricProvider.get_evaluation_dependencies
GetEvaluationDependencies(cls, m) ==
    LET dependencies ==
            IF \E t \in MetricPartialFunctionTypes : EndsWith(m.name, t)
            THEN [r \in {"metric_partial_fn"} |->
                    MetricConfiguration(m.name, m.domain, m.value)]
            ELSE EmptyKw
    IN  nested_update(dependencies, ChildDependencies(cls, m))

(***************************************************************************)
(* Python values the registration hooks compare: a function kind is either *)
(* a str or a member of one of the two Enum classes.  A member of a plain  *)
(* Enum is equal to itself only, never to the str that is its value.       *)
(***************************************************************************)
Str(s) == [ty |-> "str", v |-> s]
PartialEnum(s) == [ty |-> "MetricPartialFunctionTypes", v |-> s]
FunctionEnum(s) == [ty |-> "MetricFunctionTypes", v |-> s]

\* a == b, and therefore also "a in [b, ...]", on such values
PyEq(a, b) == a.ty = b.ty /\ a.v = b.v

MetricFunctionTypes ==
    MetricPartialFunctionTypes
        \cup {"value", "map_values", "window_values", "aggregate_value"}

MetricDomainTypes == {"column", "column_pair", "table", "other"}

Engines == {"PandasExecutionEngine", "SqlAlchemyExecutionEngine", "SparkDFExecutionEngine"}

(***************************************************************************)
(* Decorators.  A decorated method is the record of the attributes the     *)
(* decorator sets on it; shape names the wrapper that was composed around  *)
(* the author's function.  A decorator call either raises ValueError or    *)
(* returns such a method.                                                  *)
(***************************************************************************)
Method(shape, engine, fnType, domainType, kw) ==
    [shape |-> shape, metric_engine |-> engine, metric_fn_type |-> fnType,
     domain_type |-> domainType, metric_definition_kwargs |-> kw]

NoMethod == Method("None", "None", Str("None"), "None", EmptyKw)

\* a module-level provider function (it carries no decorator attributes)
ModuleFunction(name) == Method(name, "None", Str("None"), "None", EmptyKw)

Raised == [raised |-> TRUE, fn |-> NoMethod]
Returned(m) == [raised |-> FALSE, fn |-> m]

\* metric_value_fn(engine, metric_fn_type, **kwargs)(metric_fn)
metric_value_fn(engine, metric_fn_type, kw) ==
    IF metric_fn_type \in MetricFunctionTypes
    THEN Returned(Method("value_fn", engine, FunctionEnum(metric_fn_type), "None", kw))
    ELSE Raised

\* metric_partial_fn(engine, partial_fn_type, domain_type, **kwargs)(metric_fn)
metric_partial_fn(shape, engine, partial_fn_type, domain_type, kw) ==
    IF partial_fn_type \in MetricPartialFunctionTypes /\ domain_type \in MetricDomainTypes
    THEN Returned(Method(shape, engine, PartialEnum(partial_fn_type), domain_type, kw))
    ELSE Raised

\* column_function_partial(engine, partial_fn_type, **kwargs)(metric_fn)
column_function_partial(engine, partial_fn_type, kw) ==
    IF engine = "PandasExecutionEngine" THEN
        IF partial_fn_type # "map_series" THEN Raised
        ELSE metric_partial_fn("function_partial", engine, partial_fn_type, "column", kw)
    ELSE IF engine = "SqlAlchemyExecutionEngine" THEN
        IF partial_fn_type \notin {"map_fn"} THEN Raised
        ELSE metric_partial_fn("function_partial", engine, partial_fn_type, "column", kw)
    ELSE IF engine = "SparkDFExecutionEngine" THEN
        IF partial_fn_type \notin {"map_fn", "window_fn"} THEN Raised
        ELSE metric_partial_fn("function_partial", engine, partial_fn_type, "column", kw)
    ELSE Raised

\* column_condition_partial(engine, partial_fn_type, **kwargs)(metric_fn)
column_condition_partial(engine, partial_fn_type, kw) ==
    IF engine = "PandasExecutionEngine" THEN
        IF partial_fn_type \notin {"map_condition_series"} THEN Raised
        ELSE metric_partial_fn("condition_partial", engine, partial_fn_type, "column", kw)
    ELSE IF engine = "SqlAlchemyExecutionEngine" THEN
        IF partial_fn_type \notin {"map_condition_fn"} THEN Raised
        ELSE metric_partial_fn("condition_partial", engine, partial_fn_type, "column", kw)
    ELSE IF engine = "SparkDFExecutionEngine" THEN
        IF partial_fn_type \notin {"map_condition_fn", "window_condition_fn"} THEN Raised
        ELSE metric_partial_fn("condition_partial", engine, partial_fn_type, "column", kw)
    ELSE Raised

(***************************************************************************)
(* The metric registry                                                     *)
(***************************************************************************)
Key(name, engine) == <<name, engine>>

Call(name, domainKeys, valueKeys, engine, cls, provider, fnType) ==
    [metric_name |-> name, metric_domain_keys |-> domainKeys,
     metric_value_keys |-> valueKeys, execution_engine |-> engine,
     metric_class |-> cls, metric_provider |-> provider, metric_fn_type |-> fnType]

NoEntry == Call(<<>>, {}, {}, "None", 0, NoMethod, Str("None"))

EntryAt(reg, key) == IF key \in DOMAIN reg THEN reg[key] ELSE NoEntry

\* a register_metric that lets the last registration of a key win
register_metric_LastWins(reg, call) ==
    LET key == Key(call.metric_name, call.execution_engine)
    IN  [registry |-> [k \in (DOMAIN reg) \cup {key} |->
                            IF k = key THEN call ELSE reg[k]],
         raised |-> FALSE]

\* register_metric: it fails if the key already exists, else it records the entry
register_metric(reg, call) ==
    LET key == Key(call.metric_name, call.execution_engine)
    IN  IF key \in DOMAIN reg
        THEN [registry |-> reg, raised |-> TRUE]
        ELSE [registry |-> [k \in (DOMAIN reg) \cup {key} |->
                                IF k = key THEN call ELSE reg[k]],
              raised |-> FALSE]

(***************************************************************************)
(* Provider classes.  A class statement gives the base class, the metric  *)
(* name attributes (NoName when the class has none) and the tagged methods *)
(* of the class body in the order the hook visits them.                    *)
(***************************************************************************)
NoName == <<>>

ClassBody(base, metricName, conditionName, functionName, methods) ==
    [open |-> TRUE, base |-> base, metric_name |-> metricName,
     condition_metric_name |-> conditionName,
     function_metric_name |-> functionName, methods |-> methods]

NoBody == [open |-> FALSE, base |-> "None", metric_name |-> NoName,
           condition_metric_name |-> NoName, function_metric_name |-> NoName,
           methods |-> <<>>]

\* what a hook did: the register_metric calls it issued, in order, and the
\* exception it raised after them, if any
Hooked(calls, error) == [calls |-> calls, error |-> error]

Then(a, b) == IF a.error # "none" THEN a ELSE Hooked(a.calls \o b.calls, b.error)

condition_domain_keys == {"batch_id", "table", "row_condition", "condition_parser"}
function_domain_keys == {"batch_id", "table", "row_condition", "condition_parser"}

\* MetricProvider._register_metric_functions, the body of the loop for one
\* attribute that has a metric_engine
GenericRegisterMethod(cid, cls, metric_fn) ==
    LET metric_name == cls.metric_name
        declared_metric_name == metric_name
        metric_fn_type == metric_fn.metric_fn_type
        C(name, provider) ==
            Call(name, {}, {}, metric_fn.metric_engine, cid, provider, metric_fn_type)
    IN  IF metric_fn.metric_engine \notin Engines THEN Hooked(<<>>, "ValueError")
        ELSE IF metric_name = NoName THEN Hooked(<<>>, "none")
        ELSE IF PyEq(metric_fn_type, Str("value"))
            THEN Hooked(<<C(declared_metric_name, metric_fn)>>, "none")
        ELSE IF metric_fn_type.ty = "str" THEN Hooked(<<>>, "AttributeError")
        ELSE Hooked(<<C(declared_metric_name \o <<".", metric_fn_type.v>>, metric_fn),
                      C(declared_metric_name, NoMethod)>>, "none")

\* MapMetricProvider._register_metric_functions, the body of the loop for one
\* attribute that has a metric_engine
MapRegisterMethod(cid, cls, candidate_metric_fn) ==
    LET metric_fn_type == candidate_metric_fn.metric_fn_type
        engine == candidate_metric_fn.metric_engine
        domain_type == candidate_metric_fn.domain_type
        metric_name == cls.condition_metric_name
        C(suffix, valueKeys, provider, fnType) ==
            Call(metric_name \o suffix, condition_domain_keys, valueKeys, engine, cid,
                 provider, fnType)
        F(name) == ModuleFunction(name)
        rf == {"result_format"}
        ColumnCalls(values, counts, rows) ==
            IF domain_type = "column"
            THEN <<C(<<".unexpected_values">>, rf, F(values), Str("value")),
                   C(<<".unexpected_value_counts">>, rf, F(counts), Str("value")),
                   C(<<".unexpected_rows">>, rf, F(rows), Str("value"))>>
            ELSE <<>>
        Pandas ==
            <<C(<<>>, {}, candidate_metric_fn, Str("map_condition_fn")),
              C(<<".unexpected_count">>, {}, F("_pandas_map_unexpected_count"),
                Str("value")),
              C(<<".unexpected_index_list">>, rf, F("_pandas_column_map_index"),
                Str("value"))>>
            \o ColumnCalls("_pandas_column_map_values",
                           "_pandas_column_map_value_counts", "_pandas_column_map_rows")
        SqlAlchemy ==
            <<C(<<>>, {}, candidate_metric_fn, Str("map_condition_fn")),
              C(<<".unexpected_count">>, {}, F("_sqlalchemy_map_unexpected_count"),
                Str("aggregate_fn"))>>
            \o ColumnCalls("_sqlalchemy_column_map_values",
                           "_sqlalchemy_column_map_value_counts",
                           "_sqlalchemy_column_map_rows")
        Spark ==
            <<C(<<>>, {}, candidate_metric_fn, metric_fn_type)>>
            \o (IF PyEq(metric_fn_type, Str("map_condition_fn"))
                THEN <<C(<<".unexpected_count">>, {}, F("_spark_map_unexpected_count"),
                         Str("aggregate_fn"))>>
                ELSE IF PyEq(metric_fn_type, Str("window_condition_fn"))
                THEN <<C(<<".unexpected_count">>, {},
                         F("_spark_map_unexpected_count_data"), Str("value"))>>
                ELSE <<>>)
            \o ColumnCalls("_spark_column_map_values", "_spark_column_map_value_counts",
                           "_spark_column_map_rows")
    IN  IF engine \notin Engines THEN Hooked(<<>>, "ValueError")
        ELSE IF PyEq(metric_fn_type, Str("window_condition_fn"))
                \/ PyEq(metric_fn_type, Str("map_condition_fn"))
        THEN IF cls.condition_metric_name = NoName THEN Hooked(<<>>, "ValueError")
             ELSE Hooked((IF engine = "PandasExecutionEngine" THEN Pandas ELSE <<>>)
                         \o (IF engine = "SqlAlchemyExecutionEngine" THEN SqlAlchemy
                             ELSE IF engine = "SparkDFExecutionEngine" THEN Spark
                             ELSE <<>>),
                         "none")
        ELSE IF PyEq(metric_fn_type, Str("map_fn"))
        THEN IF cls.function_metric_name = NoName THEN Hooked(<<>>, "ValueError")
             ELSE Hooked(<<Call(cls.function_metric_name, function_domain_keys, {},
                                engine, cid, candidate_metric_fn, Str("map_fn"))>>,
                         "none")
        ELSE Hooked(<<>>, "none")

RECURSIVE HookLoop(_, _, _, _)
\* the loop of a hook over the tagged attributes methods[i..]
HookLoop(cid, cls, methods, i) ==
    IF i > Len(methods) THEN Hooked(<<>>, "none")
    ELSE Then(IF cls.base = "MapMetricProvider"
              THEN MapRegisterMethod(cid, cls, methods[i])
              ELSE GenericRegisterMethod(cid, cls, methods[i]),
              HookLoop(cid, cls, methods, i + 1))

\* cls._register_metric_functions(), as MetaMetricProvider.__new__ calls it
RegisterMetricFunctions(cid, cls) ==
    IF cls.base = "MapMetricProvider"
        /\ cls.function_metric_name = NoName /\ cls.condition_metric_name = NoName
    THEN Hooked(<<>>, "none")
    ELSE HookLoop(cid, cls, cls.methods, 1)

RECURSIVE ApplyCalls(_, _, _)
\* the effect of the calls on the registry: each call is logged with the entry
\* its key held before it and whether register_metric raised; a raise ends the hook
ApplyCalls(reg, calls, i) ==
    IF i > Len(calls) THEN [registry |-> reg, log |-> <<>>, raised |-> FALSE]
    ELSE LET r == register_metric(reg, calls[i])
             entry == [call |-> calls[i],
                       prior |-> EntryAt(reg, Key(calls[i].metric_name,
                                                  calls[i].execution_engine)),
                       raised |-> r.raised]
         IN  IF r.raised
             THEN [registry |-> r.registry, log |-> <<entry>>, raised |-> TRUE]
             ELSE LET rest == ApplyCalls(r.registry, calls, i + 1)
                  IN  [registry |-> rest.registry, log |-> <<entry>> \o rest.log,
                       raised |-> rest.raised]

(***************************************************************************)
(* Class definitions.  A class statement runs its body, one decorator call *)
(* per tagged method, and then MetaMetricProvider.__new__ runs the         *)
(* registration hook of the new class.  An exception raised by a decorator *)
(* ends the class statement.                                               *)
(***************************************************************************)
MethodSlots == 1..2

TypeArgs == MetricPartialFunctionTypes \cup {"map_series", "map_condition_series"}

DirectTypeArgs == {"map_fn", "aggregate_fn", "map_series"}

Decl(decorator, engine, fnType) ==
    [decorator |-> decorator, engine |-> engine, fn_type |-> fnType]

\* the metric_fn_type arguments of metric_value_fn: the default and, for the
\* in-memory engine, another member of MetricFunctionTypes
ValueTypeArgs(engine) ==
    {"value"} \cup (IF engine = "PandasExecutionEngine" THEN {"aggregate_value"} ELSE {})

DeclInputs ==
    UNION {{Decl("metric_value_fn", e, t) : t \in ValueTypeArgs(e)} :
                e \in Engines \cup {"object"}}
    \cup {Decl("metric_partial_fn", e, t) : e \in Engines, t \in DirectTypeArgs}
    \cup {Decl(d, e, t) : d \in {"column_function_partial", "column_condition_partial"},
                          e \in Engines \cup {"object"}, t \in TypeArgs}

ApplyDecorator(d) ==
    IF d.decorator = "metric_value_fn" THEN metric_value_fn(d.engine, d.fn_type, EmptyKw)
    ELSE IF d.decorator = "metric_partial_fn"
        THEN metric_partial_fn("partial_fn", d.engine, d.fn_type, "column", EmptyKw)
    ELSE IF d.decorator = "column_function_partial"
        THEN column_function_partial(d.engine, d.fn_type, EmptyKw)
    ELSE column_condition_partial(d.engine, d.fn_type, EmptyKw)

NoDecl == [decl |-> Decl("None", "None", "None"), raised |-> FALSE, fn |-> NoMethod]

NoDef == [defined |-> FALSE, cls |-> NoBody, log |-> <<>>, error |-> "none"]

EmptyRegistry == [k \in {} |-> NoEntry]

RegIdle ==
    /\ registry = EmptyRegistry
    /\ classCount = 0
    /\ body = NoBody
    /\ lastDecl = NoDecl
    /\ lastDef = NoDef

DepsIdle ==
    /\ metric = NoMetric
    /\ providerCls = "MetricProvider"
    /\ pending = {}
    /\ cur = NoWork
    /\ resolvedOf = NoWork
    /\ deps = EmptyKw


(***************************************************************************)
(* Datasets.  A table is the sequence of the values of its one column, in  *)
(* row order; 0 stands for a null value.  A row carries its index, which   *)
(* the in-memory engine keeps through filtering.                           *)
(***************************************************************************)
ColumnValues == 0..2

Tables == UNION {[1..n -> ColumnValues] : n \in 0..MaxRows}

TableRows(table) == [i \in 1..Len(table) |-> [id |-> i, col |-> table[i]]]

Ids(rows) == {rows[i].id : i \in 1..Len(rows)}

Cols(rows) == [i \in 1..Len(rows) |-> rows[i].col]

NotNullRows(rows) ==
    LET Keep(r) == r.col # 0
    IN  SelectSeq(rows, Keep)

\* seq[:n] for n >= 0
Slice(seq, n) == SubSeq(seq, 1, IF n < Len(seq) THEN n ELSE Len(seq))

\* SQL three-valued logic: "T", "F" and "N" (NULL)
Tri == {"T", "F", "N"}
Not3_Identity(a) == a
Not3(a) == IF a = "T" THEN "F" ELSE IF a = "F" THEN "T" ELSE "N"
And3(a, b) ==
    IF a = "F" \/ b = "F" THEN "F" ELSE IF a = "T" /\ b = "T" THEN "T" ELSE "N"

(***************************************************************************)
(* The compute domain resolver of an execution engine                      *)
(***************************************************************************)
\* domain kwargs: "column" names the column, "row_condition" is the set of the
\* row filters in force
EvalDomainKwargs ==
    {[k \in {"column"} |-> IF k = "column" THEN "a" ELSE {"ne1"}],
     [k \in {"column", "row_condition"} |-> IF k = "column" THEN "a" ELSE {"ne1"}]}

RowConditionOf(d) == IF "row_condition" \in DOMAIN d THEN d["row_condition"] ELSE {}

\* ExecutionEngine.get_compute_domain(domain_kwargs, domain_type): the rows the
\* kwargs select, the kwargs that select them again, and the accessor kwargs
get_compute_domain(table, d) ==
    LET Keep(r) == /\ "notnull" \in RowConditionOf(d) => r.col # 0
                   /\ "ne1" \in RowConditionOf(d) => r.col # 1
    IN  [data |-> SelectSeq(TableRows(table), Keep),
         compute |-> WithoutKey(d, "column"),
         accessor |-> [k \in (DOMAIN d) \cap {"column"} |-> d[k]]]

\* ExecutionEngine.add_column_row_condition(domain_kwargs): the domain kwargs with
\* the exclusion of the rows whose column is null folded in
add_column_row_condition(d) ==
    [k \in (DOMAIN d) \cup {"row_condition"} |->
        IF k = "row_condition" THEN RowConditionOf(d) \cup {"notnull"} ELSE d[k]]

(***************************************************************************)
(* Authors' functions.  A condition author says, row by row, whether the   *)
(* value meets the expectation; a window author's answer depends on the    *)
(* whole column it is evaluated over (here: the value occurs once).        *)
(***************************************************************************)
Authors ==
    {[kind |-> "rowwise", meets |-> f] :
        f \in {g \in [ColumnValues -> Tri] :
                    /\ g[0] # "T"
                    /\ \A v \in ColumnValues \ {0} : g[v] # "N"}}
    \cup {[kind |-> "unique", meets |-> [v \in ColumnValues |-> "T"]]}

Occurrences(rows, v) == Cardinality({i \in 1..Len(rows) : rows[i].col = v})

\* the value of the author's expression on row r of rows
AuthorEval(author, rows, r) ==
    IF author.kind = "unique"
    THEN (IF Occurrences(rows, r.col) = 1 THEN "T" ELSE "F")
    ELSE author.meets[r.col]

\* a boolean column expression of the SQL or Spark engine, and its value on a row
Expr(author, notnull) == [author |-> author, notnull |-> notnull]

NoExpr == Expr([kind |-> "None", meets |-> [v \in ColumnValues |-> "N"]], FALSE)

\* an evaluation that drops the not-null conjunct
EvalExpr_IgnoresNotNull(expr, rows, r) == Not3(AuthorEval(expr.author, rows, r))

EvalExpr(expr, rows, r) ==
    LET not_expected == Not3(AuthorEval(expr.author, rows, r))
    IN  IF expr.notnull
        THEN And3(IF r.col # 0 THEN "T" ELSE "F", not_expected)
        ELSE not_expected

(***************************************************************************)
(* The composition layer: what the composed provider of a decorated method *)
(* returns when it is called with domain kwargs d on a table               *)
(***************************************************************************)
\* an optional bool: a decorator keyword or a class attribute that may be absent
Opt == {"absent", "True", "False"}

\* a lookup that asks the class before the decorator keyword
FilterColumnIsnull_ClassFirst(kw, attr, default) ==
    IF attr # "absent" THEN attr = "True"
    ELSE IF kw # "absent" THEN kw = "True"
    ELSE default

\* kwargs.get("filter_column_isnull", getattr(cls, "filter_column_isnull", default))
FilterColumnIsnull(kw, attr, default) ==
    IF kw # "absent" THEN kw = "True"
    ELSE IF attr # "absent" THEN attr = "True"
    ELSE default

\* a function partial whose flag defaults like that of a condition partial
FunctionPartialFilter_DefaultsTrue(kw, attr) == FilterColumnIsnull(kw, attr, TRUE)

\* the flag of the inner_func of column_function_partial
FunctionPartialFilter(kw, attr) == FilterColumnIsnull(kw, attr, FALSE)

\* the flag of the inner_func of column_condition_partial
ConditionPartialFilter(kw, attr) == FilterColumnIsnull(kw, attr, TRUE)

\* the flag of the in-memory derived-metric providers
DerivedFilter(attr) == FilterColumnIsnull("absent", attr, FALSE)

\* what a composed provider returns: a tuple of the given arity.  mask is the
\* boolean (or value) Series of the in-memory engine, expr the column expression
\* of the other engines.
Partial(arity, mask, expr, compute, accessor) ==
    [arity |-> arity, mask |-> mask, expr |-> expr, compute |-> compute,
     accessor |-> accessor]

NoPartial == Partial(0, <<>>, NoExpr, EmptyKw, EmptyKw)

\* the engine and partial_fn_type pairs a decorator call passes its own checks with
ConditionKinds ==
    {<<"PandasExecutionEngine", "map_condition_series">>,
     <<"SqlAlchemyExecutionEngine", "map_condition_fn">>,
     <<"SparkDFExecutionEngine", "map_condition_fn">>,
     <<"SparkDFExecutionEngine", "window_condition_fn">>}

FunctionKinds ==
    {<<"PandasExecutionEngine", "map_series">>,
     <<"SqlAlchemyExecutionEngine", "map_fn">>,
     <<"SparkDFExecutionEngine", "map_fn">>,
     <<"SparkDFExecutionEngine", "window_fn">>}

\* inner_func of column_condition_partial for the in-memory engine
PandasConditionPartial(table, author, filter, d) ==
    LET cd == get_compute_domain(table, d)
        df == IF filter THEN NotNullRows(cd.data) ELSE cd.data
        \* ~meets_expectation_series
        mask == [i \in 1..Len(df) |->
                    [id |-> df[i].id, val |-> ~(AuthorEval(author, df, df[i]) = "T")]]
    IN  Partial(3, mask, NoExpr, cd.compute, cd.accessor)

\* an SQL condition partial that filters nulls through its domain kwargs
SqlalchemyConditionPartial_FiltersByDomain(table, author, filter, d) ==
    Partial(2, <<>>, Expr(author, FALSE),
            IF filter THEN add_column_row_condition(d)
            ELSE get_compute_domain(table, d).compute,
            EmptyKw)

\* inner_func of column_condition_partial for the SQL engine
SqlalchemyConditionPartial(table, author, filter, d) ==
    LET cd == get_compute_domain(table, d)
    IN  Partial(2, <<>>, Expr(author, filter), cd.compute, EmptyKw)

\* a Spark condition partial that treats a window condition like a row-wise one
SparkConditionPartial_InlineFilter(table, author, filter, partial_fn_type, d) ==
    Partial(2, <<>>, Expr(author, filter), get_compute_domain(table, d).compute, EmptyKw)

\* inner_func of column_condition_partial for the Spark engine
SparkConditionPartial(table, author, filter, partial_fn_type, d) ==
    LET cd == get_compute_domain(table, d)
    IN  IF partial_fn_type = "window_condition_fn"
        THEN Partial(2, <<>>, Expr(author, FALSE),
                     IF filter THEN add_column_row_condition(d) ELSE cd.compute,
                     EmptyKw)
        ELSE Partial(2, <<>>, Expr(author, filter), cd.compute, EmptyKw)

ConditionPartial(table, author, kind, filter, d) ==
    IF kind[1] = "PandasExecutionEngine" THEN PandasConditionPartial(table, author, filter, d)
    ELSE IF kind[1] = "SqlAlchemyExecutionEngine"
        THEN SqlalchemyConditionPartial(table, author, filter, d)
    ELSE SparkConditionPartial(table, author, filter, kind[2], d)

\* inner_func of column_function_partial for the in-memory engine: the values the
\* author's function is given
PandasFunctionPartial(table, filter, d) ==
    LET cd == get_compute_domain(table, d)
        df == IF filter THEN NotNullRows(cd.data) ELSE cd.data
    IN  Partial(3, [i \in 1..Len(df) |-> [id |-> df[i].id, val |-> df[i].col # 0]],
                NoExpr, cd.compute, cd.accessor)

\* inner_func of column_function_partial for the SQL and the Spark engine
ExprFunctionPartial(table, filter, d) ==
    LET cd == get_compute_domain(table,
                                 IF filter THEN add_column_row_condition(d) ELSE d)
    IN  Partial(3, <<>>, NoExpr, cd.compute, cd.accessor)

FunctionPartial(table, kind, filter, d) ==
    IF kind[1] = "PandasExecutionEngine" THEN PandasFunctionPartial(table, filter, d)
    ELSE ExprFunctionPartial(table, filter, d)

(***************************************************************************)
(* The derived-metric providers.  Each is called with its own domain       *)
(* kwargs d, its value kwargs (the result format rf) and, under the role   *)
(* "unexpected_condition", the value mv of the condition metric.           *)
(***************************************************************************)
ResultFormats ==
    {rf \in [result_format : {"COMPLETE", "BASIC"}, partial_unexpected_count : 0..MaxPartial] :
        rf.result_format = "COMPLETE" => rf.partial_unexpected_count = 0}

\* an aggregate expression with the domain kwargs it is to be computed over
Aggregate(expr, domain) == [expr |-> expr, domain |-> domain]

NoAggregate == Aggregate(NoExpr, EmptyKw)

\* what a provider call yields: an error, a number, a list, or an aggregate partial
Out(err, n, items, agg) == [err |-> err, n |-> n, items |-> items, agg |-> agg]

Error(e) == Out(e, 0, <<>>, NoAggregate)
Number(n) == Out("none", n, <<>>, NoAggregate)
List(items) == Out("none", 0, items, NoAggregate)
NoOut == Error("not called")

\* the value of the condition metric as a derived provider is handed it: the
\* tuple the condition provider returned, or its first element alone
MetricValue(tuple, ret) == [tuple |-> tuple, ret |-> ret]

\* the rows of a result set as tuples of their column values
Tuples(rows) == [i \in 1..Len(rows) |-> [a |-> rows[i].col]]

CountTrue(mask) == Cardinality({i \in 1..Len(mask) : mask[i].val})

\* data[mask == True] of pandas: the mask is aligned on the index of the data and
\* has to cover it; a tuple compared with True is the scalar False, no indexer
BooleanIndex(df, mv) ==
    IF mv.tuple THEN [err |-> "KeyError", rows |-> <<>>]
    ELSE IF ~(Ids(df) \subseteq Ids(mv.ret.mask)) THEN [err |-> "IndexingError", rows |-> <<>>]
    ELSE LET mask == mv.ret.mask
             Keep(r) == \E i \in 1..Len(mask) : mask[i].id = r.id /\ mask[i].val
         IN  [err |-> "none", rows |-> SelectSeq(df, Keep)]

\* the groups of a sequence of values with their sizes, in order of first appearance
GroupBy(values) ==
    LET First(i) == \A j \in 1..(i - 1) : values[j] # values[i]
        firsts == SelectSeq([i \in 1..Len(values) |-> i], First)
    IN  [k \in 1..Len(firsts) |->
            [value |-> values[firsts[k]],
             count |-> Cardinality({i \in 1..Len(values) : values[i] = values[firsts[k]]})]]

Reverse(seq) == [i \in 1..Len(seq) |-> seq[Len(seq) + 1 - i]]

\* Series.value_counts(): the groups, the largest first
value_counts(values) ==
    LET h == GroupBy(values)
        Rank(i) == 1 + Cardinality({j \in 1..Len(h) :
                        \/ h[j].count > h[i].count
                        \/ h[j].count = h[i].count /\ j < i})
    IN  [k \in 1..Len(h) |-> h[CHOOSE i \in 1..Len(h) : Rank(i) = k]]

\* bool(Series): the truth value of a Series is ambiguous, whatever it holds
SeriesTruth(series) == "ValueError"

_pandas_map_unexpected_count(mv) ==
    IF mv.tuple THEN Error("ValueError") ELSE Number(CountTrue(mv.ret.mask))

_pandas_column_map_values(table, attr, rf, mv) ==
    IF ~mv.tuple THEN Error("ValueError")
    ELSE LET cd == get_compute_domain(table, mv.ret.compute)
             bare == MetricValue(FALSE, mv.ret)
         IN  IF "column" \notin DOMAIN cd.accessor THEN Error("KeyError")
             ELSE LET df == IF DerivedFilter(attr) THEN NotNullRows(cd.data) ELSE cd.data
                      sel == BooleanIndex(df, bare)
                  IN  IF sel.err # "none" THEN Error(sel.err)
                      ELSE IF rf.result_format = "COMPLETE" THEN List(Cols(sel.rows))
                      ELSE List(Slice(Cols(sel.rows), rf.partial_unexpected_count))

\* the first lines the other in-memory providers share: the data of the provider's
\* own domain kwargs, null-filtered by the provider's own flag
PandasDomainData(table, attr, d) ==
    LET cd == get_compute_domain(table, d)
    IN  IF DerivedFilter(attr) THEN NotNullRows(cd.data) ELSE cd.data

_pandas_column_map_index(table, attr, d, rf, mv) ==
    LET sel == BooleanIndex(PandasDomainData(table, attr, d), mv)
        index == [i \in 1..Len(sel.rows) |-> sel.rows[i].id]
    IN  IF sel.err # "none" THEN Error(sel.err)
        ELSE IF rf.result_format = "COMPLETE" THEN List(index)
        ELSE List(Slice(index, rf.partial_unexpected_count))

\* grouping says how the two attempts to group end: "direct" (the first succeeds),
\* "fallback" (the first raises ValueError, the second succeeds) or "neither"
_pandas_column_map_value_counts(table, attr, d, rf, mv, grouping) ==
    LET sel == BooleanIndex(PandasDomainData(table, attr, d), mv)
        counts == value_counts(Cols(sel.rows))
    IN  IF sel.err # "none" THEN Error(sel.err)
        ELSE IF grouping = "neither" THEN Error("MetricError")
        ELSE IF SeriesTruth(counts) = "ValueError" THEN Error("ValueError")
        ELSE IF rf.result_format = "COMPLETE" THEN List(counts)
        ELSE IF \E i \in 1..Len(counts) : counts[i].value = rf.partial_unexpected_count
            THEN Number((CHOOSE c \in {counts[i] : i \in 1..Len(counts)} :
                            c.value = rf.partial_unexpected_count).count)
        ELSE Error("KeyError")

_pandas_column_map_rows(table, attr, d, rf, mv) ==
    LET sel == BooleanIndex(PandasDomainData(table, attr, d), mv)
    IN  IF sel.err # "none" THEN Error(sel.err)
        ELSE IF rf.result_format = "COMPLETE" THEN List(Tuples(sel.rows))
        ELSE Error("KeyError")

\* the rows of data on which a column expression is TRUE
Where(data, expr) ==
    LET Keep(r) == EvalExpr(expr, data, r) = "T"
    IN  SelectSeq(data, Keep)

_sqlalchemy_map_unexpected_count(mv) ==
    Out("none", 0, <<>>, Aggregate(mv.ret.expr, mv.ret.compute))

\* a provider that does not compare the two compute domain kwargs
_sqlalchemy_column_map_values_NoAssert(table, d, rf, mv) ==
    LET hit == Where(get_compute_domain(table, d).data, mv.ret.expr)
    IN  IF rf.result_format # "COMPLETE"
        THEN List(Slice(Cols(hit), rf.partial_unexpected_count))
        ELSE List(Cols(hit))

_sqlalchemy_column_map_values(table, d, rf, mv) ==
    LET cd == get_compute_domain(table, d)
        hit == Where(cd.data, mv.ret.expr)
    IN  IF mv.ret.compute # cd.compute THEN Error("AssertionError")
        ELSE IF rf.result_format # "COMPLETE"
            THEN List(Slice(Cols(hit), rf.partial_unexpected_count))
        ELSE List(Cols(hit))

\* reversed says in which of two orders the engine hands out the groups
_sqlalchemy_column_map_value_counts(table, d, mv, reversed) ==
    LET cd == get_compute_domain(table, d)
        groups == GroupBy(Cols(Where(cd.data, mv.ret.expr)))
    IN  IF mv.ret.compute # cd.compute THEN Error("AssertionError")
        ELSE IF "column" \notin DOMAIN cd.accessor THEN Error("KeyError")
        ELSE List(IF reversed THEN Reverse(groups) ELSE groups)

_sqlalchemy_column_map_rows(table, d, rf, mv) ==
    LET cd == get_compute_domain(table, d)
        hit == Where(cd.data, mv.ret.expr)
    IN  IF mv.ret.compute # cd.compute THEN Error("AssertionError")
        ELSE IF rf.result_format # "COMPLETE"
            THEN List(Slice(Tuples(hit), rf.partial_unexpected_count))
        ELSE List(Tuples(hit))

_spark_map_unexpected_count(mv) ==
    Out("none", 0, <<>>, Aggregate(mv.ret.expr, mv.ret.compute))

_spark_map_unexpected_count_data(table, mv) ==
    LET data == get_compute_domain(table, mv.ret.compute).data
    IN  Number(Len(Where(data, mv.ret.expr)))

_spark_column_map_values(table, d, rf, mv) ==
    LET data == get_compute_domain(table, mv.ret.compute).data
        filtered == Where(data, mv.ret.expr)
    IN  IF "column" \notin DOMAIN d THEN Error("KeyError")
        ELSE IF rf.result_format = "COMPLETE" THEN List(Cols(filtered))
        ELSE List(Cols(Slice(filtered, rf.partial_unexpected_count)))

_spark_column_map_value_counts(table, rf, mv, reversed) ==
    LET cd == get_compute_domain(table, mv.ret.compute)
        groups == GroupBy(Cols(Where(cd.data, mv.ret.expr)))
        rows == IF reversed THEN Reverse(groups) ELSE groups
    IN  IF "column" \notin DOMAIN cd.accessor THEN Error("KeyError")
        ELSE IF rf.result_format = "COMPLETE" THEN List(rows)
        ELSE List(Slice(rows, rf.partial_unexpected_count))

_spark_column_map_rows(table, rf, mv) ==
    LET data == get_compute_domain(table, mv.ret.compute).data
        filtered == Where(data, mv.ret.expr)
    IN  IF rf.result_format = "COMPLETE" THEN List(Tuples(filtered))
        ELSE List(Tuples(Slice(filtered, rf.partial_unexpected_count)))

\* the value an engine computes for an aggregate partial: SUM(CASE WHEN expr
\* THEN 1 ELSE 0 END) over the rows of the domain; the sum of no rows is NULL
AggregateValue(table, agg) ==
    LET data == get_compute_domain(table, agg.domain).data
    IN  [null |-> Len(data) = 0, n |-> Len(Where(data, agg.expr))]

(***************************************************************************)
(* Calls of the composed providers and of the derived-metric providers     *)
(***************************************************************************)
\* a call of a composed provider: its shape and kind, the decorator keyword kw
\* and the class attribute attr for filter_column_isnull, the domain kwargs of
\* the call, the flag in force and the tuple returned
PartialCall(shape, kind, kw, attr, domain, filter, ret) ==
    [shape |-> shape, kind |-> kind, kw |-> kw, attr |-> attr, domain |-> domain,
     filter |-> filter, ret |-> ret]

NoPartialCall ==
    PartialCall("none", <<"none", "none">>, "absent", "absent", EmptyKw, FALSE, NoPartial)

DerivedCall(name, domain, rf, tuple, grouping, out) ==
    [metric |-> name, domain |-> domain, rf |-> rf, tuple |-> tuple,
     grouping |-> grouping, out |-> out]

NoDerivedCall ==
    DerivedCall("none", EmptyKw,
                [result_format |-> "COMPLETE", partial_unexpected_count |-> 0],
                TRUE, "direct", NoOut)

EvalIdle ==
    /\ dataset = <<>>
    /\ authored = CHOOSE a \in Authors : a.kind = "unique"
    /\ partial = NoPartialCall
    /\ derived = NoDerivedCall

(***************************************************************************)
(* The ExecutionEnvironment.  A data connector configuration is a dict, a  *)
(* data connector is the object instantiate_class_from_config builds from  *)
(* it; the two are never equal.                                            *)
(***************************************************************************)
ConnectorNames == {<<"connector", i>> : i \in 1..MaxConnectors}

ConnectorClasses == {"ConfiguredAssetFilesystemDataConnector", "PipelineDataConnector"}

\* the configuration {"class_name": c}
ConnectorConfig(c) == [ty |-> "dict", class_name |-> c, name |-> <<"none", 0>>]

\* instantiate_class_from_config(config, runtime_environment={"name": name, ...})
DataConnector(name, config) ==
    [ty |-> "DataConnector", class_name |-> config.class_name, name |-> name]

\* the mappings of connector names to configurations a caller can pass
ConnectorMappings ==
    UNION {[S -> {ConnectorConfig(c) : c \in ConnectorClasses}] : S \in SUBSET ConnectorNames}

EngineConfigs == {"PandasExecutionEngine", "SparkDFExecutionEngine"}

\* _build_data_connector_from_config(name, config) on the dict self.data_connectors
_build_data_connector_from_config(dict, name, config) ==
    [k \in (DOMAIN dict) \cup {name} |->
        IF k = name THEN DataConnector(name, config) ELSE dict[k]]

\* _init_data_connectors(data_connector_configs), where data_connector_configs is
\* the very dict self.data_connectors refers to: the loop over its items puts
\* each connector it builds under the name it is reading
RECURSIVE _init_data_connectors(_, _)
_init_data_connectors(dict, todo) ==
    IF todo = {} THEN dict
    ELSE LET name == CHOOSE n \in todo : TRUE
         IN  _init_data_connectors(
                 _build_data_connector_from_config(dict, name, dict[name]),
                 todo \ {name})

\* the constructor call: the execution engine configuration, whether a
\* data_connectors mapping was passed, the mapping as it was when passed, and
\* the dict self._data_connectors refers to as it was when the call returned
Environment(engine, given, passed, after) ==
    [built |-> TRUE, execution_engine |-> engine, given |-> given, passed |-> passed,
     after |-> after]

NoEnv == [built |-> FALSE, execution_engine |-> "None", given |-> FALSE,
          passed |-> EmptyKw, after |-> EmptyKw]

\* the value of the config property: a deep copy of _execution_environment_config
Config(engine, connectors) ==
    [read |-> TRUE, execution_engine |-> engine, data_connectors |-> connectors]

NoConfig == [read |-> FALSE, execution_engine |-> "None", data_connectors |-> EmptyKw]

EnvIdle ==
    /\ envObj = NoEnv
    /\ connectorDict = EmptyKw
    /\ configRead = NoConfig

(***************************************************************************)
(* The stores.  A Python value is a record: its type, and what it holds.   *)
(* A str is described by the value it is the JSON text of: Str(q, base,    *)
(* items) is the str json.dumps yields when applied q times to the value   *)
(* of type base, and with base "text" and q = 0 a str that is no JSON text.*)
(***************************************************************************)
PyValue(ty, q, base, items) == [ty |-> ty, q |-> q, base |-> base, items |-> items]

PyStr(q, base, items) == PyValue("str", q, base, items)

NoValue == PyValue("None", 0, "None", <<>>)

\* the values a caller stores: 1, [1], (1,), the str "[1]" and the str "abc"
StoreValues ==
    {PyValue("int", 0, "int", <<1>>),
     PyValue("list", 0, "list", <<1>>),
     PyValue("tuple", 0, "tuple", <<1>>),
     PyStr(1, "list", <<1>>),
     PyStr(0, "text", <<>>)}

\* what a serialization or a call yields: the exception raised, or a value
Result(err, value) == [err |-> err, value |-> value]

\* json.dumps(v): the JSON text of v; a tuple is written as an array
json_dumps(v) ==
    IF v.ty = "str" THEN Result("none", PyStr(v.q + 1, v.base, v.items))
    ELSE IF v.ty \in {"int", "list"} THEN Result("none", PyStr(1, v.ty, v.items))
    ELSE IF v.ty = "tuple" THEN Result("none", PyStr(1, "list", v.items))
    ELSE Result("TypeError", NoValue)

\* a deserialization that hands the text back unparsed
json_loads_Unparsed(v) == Result("none", v)

\* json.loads(v): the value the JSON text v denotes
json_loads(v) ==
    IF v.ty # "str" THEN Result("TypeError", NoValue)
    ELSE IF v.q = 0 THEN Result("ValueError", NoValue)
    ELSE IF v.q = 1 /\ v.base # "text" THEN Result("none", PyValue(v.base, 0, v.base, v.items))
    ELSE Result("none", PyStr(v.q - 1, v.base, v.items))

\* convert_to_csv(df): asserts that df is a DataFrame
convert_to_csv(v) ==
    IF v.ty = "DataFrame" THEN Result("none", PyStr(0, "text", v.items))
    ELSE Result("AssertionError", NoValue)

SerializationTypes == {"None", "json", "pandas_csv"}

\* _get_serialization_method(serialization_type)(value); for a type it does not
\* know the method is None, and calling it raises TypeError
Serialize(serialization_type, value) ==
    IF serialization_type = "None" THEN Result("none", value)
    ELSE IF serialization_type = "json" THEN json_dumps(value)
    ELSE IF serialization_type = "pandas_csv" THEN convert_to_csv(value)
    ELSE Result("TypeError", NoValue)

\* _get_deserialization_method(serialization_type)(value)
Deserialize(serialization_type, value) ==
    IF serialization_type = "None" THEN Result("none", value)
    ELSE IF serialization_type = "json" THEN json_loads(value)
    ELSE IF serialization_type = "pandas_csv" THEN Result("NotImplementedError", NoValue)
    ELSE Result("TypeError", NoValue)

\* "if serialization_type: ... else: self.serialization_type"
EffectiveType(st, serialization_type) ==
    IF serialization_type # "None" THEN serialization_type ELSE st.serialization_type

\* keys: strs, and a key that is no str
StoreKey(ty, id) == [ty |-> ty, id |-> id]

StringKeys == {StoreKey("str", i) : i \in 1..MaxStoreKeys}

StoreKeys == StringKeys \cup {StoreKey("int", 1)}

\* BasicInMemoryStore._validate_key: assert isinstance(key, string_types)
_validate_key(key) == IF key.ty = "str" THEN "none" ELSE "AssertionError"

\* a set call: its key and serialization_type argument, the exception it raised,
\* whether it got to serialize the value and whether it wrote to the backend
SetCall(key, t, err, serialized, wrote) ==
    [key |-> key, t |-> t, err |-> err, serialized |-> serialized, wrote |-> wrote]

NoSetCall == SetCall(StoreKey("None", 0), "None", "not called", FALSE, FALSE)

\* a get call: its key and serialization_type argument and what it yielded
GetCall(key, t, res) == [key |-> key, t |-> t, err |-> res.err, value |-> res.value]

NoGetCall == GetCall(StoreKey("None", 0), "None", Result("not called", NoValue))

\* WriteOnlyStore.set(key, value, serialization_type) on BasicInMemoryStore
StoreSetCall(st, be, key, value, t) ==
    IF _validate_key(key) # "none"
    THEN [backend |-> be, call |-> SetCall(key, t, _validate_key(key), FALSE, FALSE)]
    ELSE LET serialized_value == Serialize(EffectiveType(st, t), value)
         IN  IF serialized_value.err # "none"
             THEN [backend |-> be, call |-> SetCall(key, t, serialized_value.err, TRUE, FALSE)]
             ELSE [backend |-> [k \in (DOMAIN be) \cup {key} |->
                                    IF k = key THEN serialized_value.value ELSE be[k]],
                   call |-> SetCall(key, t, "none", TRUE, TRUE)]

\* ReadWriteStore.get(key, serialization_type) on BasicInMemoryStore; the
\* backend, like a dict, raises KeyError for a key it does not hold
StoreGetCall(st, be, key, t) ==
    IF _validate_key(key) # "none" THEN GetCall(key, t, Result(_validate_key(key), NoValue))
    ELSE IF key \notin DOMAIN be THEN GetCall(key, t, Result("KeyError", NoValue))
    ELSE GetCall(key, t, Deserialize(EffectiveType(st, t), be[key]))

\* the most recent set call on a key that returned: its value and its
\* serialization_type argument
Recent(value, t) == [set |-> TRUE, value |-> value, t |-> t]

NoRecent == [set |-> FALSE, value |-> NoValue, t |-> "None"]

StoreIdle ==
    /\ store = [serialization_type |-> "None"]
    /\ backend = EmptyKw
    /\ recent = [k \in StringKeys |-> NoRecent]
    /\ lastSet = NoSetCall
    /\ lastGet = NoGetCall

PeriIdle == EnvIdle /\ StoreIdle

(***************************************************************************)
(* Class definitions, one statement at a time                              *)
(***************************************************************************)
InitReg == RegIdle /\ DepsIdle /\ EvalIdle /\ PeriIdle

\* "class X(base): <name attributes>": the class statement starts
BeginClass ==
    /\ ~body.open
    /\ classCount < MaxClasses
    /\ \E base \in {"MetricProvider", "MapMetricProvider"},
          hasMetric, hasCondition, hasFunction \in BOOLEAN :
        /\ base = "MetricProvider" => ~hasCondition /\ ~hasFunction
        /\ base = "MapMetricProvider" => ~hasMetric
        /\ body' = ClassBody(base,
                             IF hasMetric THEN <<"col">> ELSE NoName,
                             IF hasCondition THEN <<"col">> ELSE NoName,
                             IF hasFunction THEN <<"val">> ELSE NoName,
                             <<>>)
    /\ lastDecl' = NoDecl
    /\ lastDef' = NoDef
    /\ UNCHANGED <<registry, classCount>>
    /\ UNCHANGED <<depsVars, evalVars, periVars>>

\* one decorated method of the class body
Declare ==
    /\ body.open
    /\ Len(body.methods) + 1 \in MethodSlots
    /\ \E d \in DeclInputs :
        LET r == ApplyDecorator(d)
        IN  /\ lastDecl' = [decl |-> d, raised |-> r.raised, fn |-> r.fn]
            /\ body' = IF r.raised THEN NoBody
                       ELSE [body EXCEPT !.methods = Append(@, r.fn)]
    /\ UNCHANGED <<registry, classCount, lastDef>>
    /\ UNCHANGED <<depsVars, evalVars, periVars>>

\* the end of the class statement: MetaMetricProvider.__new__
DefineClass ==
    /\ body.open
    /\ LET cid == classCount + 1
           hook == RegisterMetricFunctions(cid, body)
           done == ApplyCalls(registry, hook.calls, 1)
       IN  /\ registry' = done.registry
           /\ lastDef' = [defined |-> TRUE, cls |-> body, log |-> done.log,
                          error |-> IF done.raised THEN "RegistrationError"
                                    ELSE hook.error]
    /\ classCount' = classCount + 1
    /\ body' = NoBody
    /\ lastDecl' = NoDecl
    /\ UNCHANGED <<depsVars, evalVars, periVars>>

NextReg == BeginClass \/ Declare \/ DefineClass

SpecReg == InitReg /\ [][NextReg]_vars

(***************************************************************************)
(* An evaluation driver: it resolves the requested configuration and then  *)
(* every dependency the resolver returns, recursively.                     *)
(***************************************************************************)
Bump(d) == IF d < MaxDepth THEN d + 1 ELSE MaxDepth

InitDeps ==
    /\ metric \in MetricConfigurations
    /\ providerCls \in ProviderClasses
    /\ pending = {Work(metric, 0)}
    /\ cur = NoWork
    /\ resolvedOf = NoWork
    /\ deps = EmptyKw
    /\ RegIdle
    /\ EvalIdle
    /\ PeriIdle

DriverPick ==
    /\ cur = NoWork
    /\ \E w \in pending :
        /\ cur' = w
        /\ pending' = pending \ {w}
    /\ UNCHANGED <<metric, providerCls, resolvedOf, deps>>
    /\ UNCHANGED <<regVars, evalVars, periVars>>

DriverResolve ==
    /\ cur # NoWork
    /\ LET d == GetEvaluationDependencies(providerCls, cur.cfg)
       IN  /\ deps' = d
           /\ resolvedOf' = cur
           /\ pending' = pending \cup {Work(d[r], Bump(cur.depth)) : r \in DOMAIN d}
    /\ cur' = NoWork
    /\ UNCHANGED <<metric, providerCls>>
    /\ UNCHANGED <<regVars, evalVars, periVars>>

NextDeps == DriverPick \/ DriverResolve

SpecDeps == InitDeps /\ [][NextDeps]_vars

\* the driver is a sequential program: it keeps taking steps while it has work
FairSpecDeps == SpecDeps /\ WF_vars(NextDeps)

(***************************************************************************)
(* Evaluation: a composed provider is called on a table, and then the      *)
(* derived-metric providers are called with what it returned.              *)
(***************************************************************************)
DerivedNames(engine) ==
    {"unexpected_count", "unexpected_values", "unexpected_value_counts",
     "unexpected_rows"}
    \cup (IF engine = "PandasExecutionEngine" THEN {"unexpected_index_list"} ELSE {})

\* the provider MapMetricProvider._register_metric_functions pairs with the
\* suffix name for a condition method of the given kind
DerivedProvider(table, kind, attr, name, d, rf, mv, grouping, reversed) ==
    IF kind[1] = "PandasExecutionEngine" THEN
        IF name = "unexpected_count" THEN _pandas_map_unexpected_count(mv)
        ELSE IF name = "unexpected_index_list"
            THEN _pandas_column_map_index(table, attr, d, rf, mv)
        ELSE IF name = "unexpected_values" THEN _pandas_column_map_values(table, attr, rf, mv)
        ELSE IF name = "unexpected_value_counts"
            THEN _pandas_column_map_value_counts(table, attr, d, rf, mv, grouping)
        ELSE _pandas_column_map_rows(table, attr, d, rf, mv)
    ELSE IF kind[1] = "SqlAlchemyExecutionEngine" THEN
        IF name = "unexpected_count" THEN _sqlalchemy_map_unexpected_count(mv)
        ELSE IF name = "unexpected_values" THEN _sqlalchemy_column_map_values(table, d, rf, mv)
        ELSE IF name = "unexpected_value_counts"
            THEN _sqlalchemy_column_map_value_counts(table, d, mv, reversed)
        ELSE _sqlalchemy_column_map_rows(table, d, rf, mv)
    ELSE
        IF name = "unexpected_count" THEN
            IF kind[2] = "map_condition_fn" THEN _spark_map_unexpected_count(mv)
            ELSE _spark_map_unexpected_count_data(table, mv)
        ELSE IF name = "unexpected_values" THEN _spark_column_map_values(table, d, rf, mv)
        ELSE IF name = "unexpected_value_counts"
            THEN _spark_column_map_value_counts(table, rf, mv, reversed)
        ELSE _spark_column_map_rows(table, rf, mv)

InitEval ==
    /\ dataset \in Tables
    /\ authored \in Authors
    /\ partial = NoPartialCall
    /\ derived = NoDerivedCall
    /\ DepsIdle
    /\ RegIdle
    /\ PeriIdle

\* a whole-column function is written for the in-memory engine or as a window
WholeColumnKinds == {"map_condition_series", "window_condition_fn"}

CallConditionPartial ==
    /\ partial = NoPartialCall
    /\ \E kind \in ConditionKinds, kw \in Opt, attr \in Opt, d \in EvalDomainKwargs :
        /\ authored.kind = "unique" => kind[2] \in WholeColumnKinds
        /\ LET filter == ConditionPartialFilter(kw, attr)
           IN  partial' = PartialCall("condition", kind, kw, attr, d, filter,
                              ConditionPartial(dataset, authored, kind, filter, d))
    /\ derived' = NoDerivedCall
    /\ UNCHANGED <<dataset, authored, depsVars, regVars, periVars>>

CallFunctionPartial ==
    /\ partial = NoPartialCall
    /\ \E kind \in FunctionKinds, kw \in Opt, attr \in Opt, d \in EvalDomainKwargs :
        LET filter == FunctionPartialFilter(kw, attr)
        IN  partial' = PartialCall("function", kind, kw, attr, d, filter,
                           FunctionPartial(dataset, kind, filter, d))
    /\ derived' = NoDerivedCall
    /\ UNCHANGED <<dataset, authored, depsVars, regVars, periVars>>

Groupings == {"direct", "fallback", "neither"}

CallDerived ==
    /\ partial.shape = "condition"
    /\ derived = NoDerivedCall
    /\ \E name \in DerivedNames(partial.kind[1]), d \in EvalDomainKwargs,
          rf \in ResultFormats, tuple \in BOOLEAN, grouping \in Groupings,
          reversed \in BOOLEAN :
        LET pandas == partial.kind[1] = "PandasExecutionEngine"
            mv == MetricValue(tuple, partial.ret)
        IN  /\ ~pandas => tuple
            \* the count providers read neither their domain kwargs nor the format
            /\ name = "unexpected_count" =>
                    d = partial.domain /\ rf.result_format = "COMPLETE"
            \* the Spark providers read only the column name of their domain kwargs
            /\ partial.kind[1] = "SparkDFExecutionEngine" => d = partial.domain
            /\ reversed => ~pandas /\ name = "unexpected_value_counts"
            \* grouping no rows cannot go wrong
            /\ grouping # "direct" =>
                    /\ pandas /\ name = "unexpected_value_counts"
                    /\ LET sel == BooleanIndex(PandasDomainData(dataset, partial.attr, d), mv)
                       IN  sel.err = "none" /\ sel.rows # <<>>
            /\ derived' = DerivedCall(name, d, rf, tuple, grouping,
                              DerivedProvider(dataset, partial.kind, partial.attr, name,
                                              d, rf, mv, grouping, reversed))
    /\ UNCHANGED <<dataset, authored, partial, depsVars, regVars, periVars>>

NextEval == CallConditionPartial \/ CallFunctionPartial \/ CallDerived

SpecEval == InitEval /\ [][NextEval]_vars

(***************************************************************************)
(* A Spark program: it defines its provider classes, asks the resolver for *)
(* the dependencies of a metric the last class registered, then calls      *)
(* composed and derived providers.                                         *)
(***************************************************************************)
InitProgram == RegIdle /\ DepsIdle /\ EvalIdle /\ PeriIdle

\* the class statements of the program: its providers are declared for Spark
ProgramDefine ==
    /\ resolvedOf = NoWork
    /\ NextReg
    /\ lastDecl'.decl.engine \in {"SparkDFExecutionEngine", "None"}

\* a resolution that drops the entry it looked up
ResolveRegistered_DropsEntry ==
    /\ ~body.open
    /\ resolvedOf = NoWork
    /\ \E key \in DOMAIN registry :
        LET m == MetricConfiguration(key[1], EmptyKw, EmptyKw)
        IN  /\ metric' = m
            /\ resolvedOf' = Work(m, 0)
            /\ deps' = GetEvaluationDependencies(lastDef.cls.base, m)
            /\ registry' = [k \in (DOMAIN registry) \ {key} |-> registry[k]]
    /\ providerCls' = lastDef.cls.base
    /\ UNCHANGED <<pending, cur, classCount, body, lastDecl, lastDef, evalVars, periVars>>

\* get_evaluation_dependencies of the class defined last, for a metric that
\* class registered
ResolveRegistered ==
    /\ ~body.open
    /\ resolvedOf = NoWork
    /\ \E key \in DOMAIN registry :
        LET m == MetricConfiguration(key[1], EmptyKw, EmptyKw)
        IN  /\ registry[key].metric_class = classCount
            /\ metric' = m
            /\ resolvedOf' = Work(m, 0)
            /\ deps' = GetEvaluationDependencies(lastDef.cls.base, m)
    /\ providerCls' = lastDef.cls.base
    /\ UNCHANGED <<pending, cur, regVars, evalVars, periVars>>

\* the calls of one evaluation: Spark providers of a class that sets no flag of
\* its own, complete results
ProgramEvaluate ==
    /\ resolvedOf # NoWork
    /\ NextEval
    /\ partial'.kind[1] = "SparkDFExecutionEngine"
    /\ partial'.kw = "absent"
    /\ partial'.attr = "True"
    /\ DOMAIN partial'.domain = {"column"}
    /\ derived'.rf.result_format = "COMPLETE"

NextProgram == ProgramDefine \/ ResolveRegistered \/ ProgramEvaluate

SpecProgram == InitProgram /\ [][NextProgram]_vars

(***************************************************************************)
(* An ExecutionEnvironment is constructed; then its config is read and     *)
(* further data connectors are built.                                      *)
(***************************************************************************)
InitEnv == RegIdle /\ DepsIdle /\ EvalIdle /\ PeriIdle

\* ExecutionEnvironment.__init__(name, execution_engine, data_connectors): when a
\* mapping is passed, self._data_connectors, the loop of _init_data_connectors
\* and the "data_connectors" entry of the configuration all refer to the
\* caller's dict object
Construct ==
    /\ ~envObj.built
    /\ \E engine \in EngineConfigs, given \in BOOLEAN, data_connectors \in ConnectorMappings :
        /\ ~given => data_connectors = EmptyKw
        /\ LET built == _init_data_connectors(data_connectors, DOMAIN data_connectors)
           IN  /\ envObj' = Environment(engine, given, data_connectors, built)
               /\ connectorDict' = built
    /\ configRead' = NoConfig
    /\ UNCHANGED <<depsVars, regVars, evalVars, storeVars>>

\* the config property
ReadConfig ==
    /\ envObj.built
    /\ configRead' = Config(envObj.execution_engine, connectorDict)
    /\ UNCHANGED <<envObj, connectorDict, depsVars, regVars, evalVars, storeVars>>

\* _build_data_connector_from_config(name, config), called after construction
BuildDataConnector ==
    /\ envObj.built
    /\ \E name \in ConnectorNames, c \in ConnectorClasses :
        connectorDict' = _build_data_connector_from_config(connectorDict, name,
                                                           ConnectorConfig(c))
    /\ configRead' = NoConfig
    /\ UNCHANGED <<envObj, depsVars, regVars, evalVars, storeVars>>

NextEnv == Construct \/ ReadConfig \/ BuildDataConnector

SpecEnv == InitEnv /\ [][NextEnv]_vars

(***************************************************************************)
(* A BasicInMemoryStore and the set and get calls made on it               *)
(***************************************************************************)
InitStore ==
    /\ store \in {[serialization_type |-> t] : t \in {"None", "json"}}
    /\ backend = EmptyKw
    /\ recent = [k \in StringKeys |-> NoRecent]
    /\ lastSet = NoSetCall
    /\ lastGet = NoGetCall
    /\ EnvIdle
    /\ RegIdle
    /\ DepsIdle
    /\ EvalIdle

StoreSet ==
    /\ \E key \in StoreKeys, value \in StoreValues, t \in SerializationTypes :
        LET r == StoreSetCall(store, backend, key, value, t)
        IN  /\ backend' = r.backend
            /\ lastSet' = r.call
            /\ recent' = IF r.call.err = "none"
                         THEN [recent EXCEPT ![key] = Recent(value, t)]
                         ELSE recent
    /\ lastGet' = NoGetCall
    /\ UNCHANGED <<store, depsVars, regVars, evalVars, envVars>>

StoreGet ==
    /\ \E key \in StoreKeys, t \in SerializationTypes :
        lastGet' = StoreGetCall(store, backend, key, t)
    /\ UNCHANGED <<store, backend, recent, lastSet, depsVars, regVars, evalVars, envVars>>

NextStore == StoreSet \/ StoreGet

SpecStore == InitStore /\ [][NextStore]_vars

(***************************************************************************)
(* Claims about the dependency resolver                                    *)
(***************************************************************************)
IsDerivedName(name) == \E s \in DerivedSuffixes : EndsWith(name, s)

\* C1: for a metric whose name ends with one of the five derived suffixes, the
\* resolver of a map metric provider returns exactly one dependency, under role
\* "unexpected_condition": the name with that suffix stripped, the same domain
\* kwargs, and the value kwargs without result_format and with every other key.
C1_DerivedDependency ==
    (resolvedOf # NoWork /\ providerCls = "MapMetricProvider"
        /\ IsDerivedName(resolvedOf.cfg.name)) =>
    LET m == resolvedOf.cfg
    IN  /\ DOMAIN deps = {"unexpected_condition"}
        /\ \E s \in DerivedSuffixes :
                deps["unexpected_condition"].name \o <<s>> = m.name
        /\ deps["unexpected_condition"].domain = m.domain
        /\ DOMAIN deps["unexpected_condition"].value
                = (DOMAIN m.value) \ {"result_format"}
        /\ \A k \in (DOMAIN m.value) \ {"result_format"} :
                deps["unexpected_condition"].value[k] = m.value[k]

C1_Witness ==
    /\ resolvedOf # NoWork
    /\ providerCls = "MapMetricProvider"
    /\ resolvedOf.cfg.name = <<"col", ".unexpected_count">>
    /\ DOMAIN resolvedOf.cfg.value = {"result_format", "threshold"}
    /\ DOMAIN resolvedOf.cfg.domain = {"column"}
    /\ deps = [r \in {"unexpected_condition"} |->
                MetricConfiguration(<<"col">>, resolvedOf.cfg.domain,
                                    [k \in {"threshold"} |-> 5])]

\* C2: the dependency graph is acyclic: no chain of dependencies that starts at
\* the requested configuration reaches a configuration equal to it.
C2_Acyclic ==
    (cur # NoWork /\ cur.depth >= 1) => cur.cfg # metric

\* C3: the recursive expansion of the driver terminates: it eventually has no
\* configuration left to resolve.
C3_Terminates == <>(pending = {} /\ cur = NoWork)

\* C19: no chain of dependencies produced by repeated resolution is longer than
\* two: the driver never resolves a configuration more than two dependencies
\* away from the requested one.
C19_ChainAtMostTwo ==
    cur # NoWork => cur.depth <= 2

EndsWithPartialKind(name) == \E t \in MetricPartialFunctionTypes : EndsWith(name, t)

\* C20: for a configuration whose name ends with none of the five derived
\* suffixes and with none of the partial-kind names, the resolver returns an
\* empty mapping.
C20_NoPatternNoDependencies ==
    (/\ resolvedOf # NoWork
     /\ ~IsDerivedName(resolvedOf.cfg.name)
     /\ ~EndsWithPartialKind(resolvedOf.cfg.name))
        => DOMAIN deps = {}

\* the base metric, reached as the dependency of a derived metric, has none
C20_Witness ==
    /\ resolvedOf # NoWork
    /\ providerCls = "MapMetricProvider"
    /\ resolvedOf.cfg.name = <<"col">>
    /\ resolvedOf.depth = 1
    /\ DOMAIN resolvedOf.cfg.domain = {"column"}
    /\ DOMAIN deps = {}

(***************************************************************************)
(* Claims about registration                                               *)
(***************************************************************************)
LogKey(e) == Key(e.call.metric_name, e.call.execution_engine)

\* C4: registering a (metric name, engine) key that is already registered raises
\* a registration error, which ends the class definition, and leaves the entry
\* of the first registration in the registry.
C4_NoReRegistration ==
    \A i \in 1..Len(lastDef.log) :
        lastDef.log[i].prior # NoEntry =>
            /\ lastDef.log[i].raised
            /\ i = Len(lastDef.log)
            /\ lastDef.error = "RegistrationError"
            /\ EntryAt(registry, LogKey(lastDef.log[i])) = lastDef.log[i].prior

C4_Witness ==
    /\ lastDef.defined
    /\ Len(lastDef.log) = 4
    /\ lastDef.log[4].prior # NoEntry
    /\ lastDef.log[4].prior.metric_provider = NoMethod
    /\ lastDef.log[4].call.metric_provider = NoMethod
    /\ lastDef.log[4].prior.metric_fn_type # lastDef.log[4].call.metric_fn_type
    /\ lastDef.log[4].raised

DerivedFor(engine) ==
    {<<>>, <<".unexpected_count">>, <<".unexpected_values">>,
     <<".unexpected_value_counts">>, <<".unexpected_rows">>}
    \cup (IF engine = "PandasExecutionEngine" THEN {<<".unexpected_index_list">>}
          ELSE {})

\* C10: after the definition of a map provider class that has a condition metric
\* name and a condition-style method of the column domain for an engine, the
\* registry holds, for that engine, the condition metric and its derived metrics
\* .unexpected_count, .unexpected_values, .unexpected_value_counts and
\* .unexpected_rows, and .unexpected_index_list for the in-memory engine only.
C10_ConditionClassRegistersDerived ==
    (lastDef.defined /\ lastDef.error = "none"
        /\ lastDef.cls.base = "MapMetricProvider"
        /\ lastDef.cls.condition_metric_name # NoName) =>
    \A i \in 1..Len(lastDef.cls.methods) :
        LET m == lastDef.cls.methods[i]
        IN  (m.shape = "condition_partial" /\ m.domain_type = "column") =>
            /\ \A suffix \in DerivedFor(m.metric_engine) :
                    Key(lastDef.cls.condition_metric_name \o suffix, m.metric_engine)
                        \in DOMAIN registry
            /\ m.metric_engine # "PandasExecutionEngine" =>
                    Key(lastDef.cls.condition_metric_name
                            \o <<".unexpected_index_list">>, m.metric_engine)
                        \notin DOMAIN registry

IsPartialKind(fnType) == fnType.ty = "MetricPartialFunctionTypes"

\* the class lacks the base metric name attribute the tagged method m needs
LacksBaseName(cls, m) ==
    IF cls.base = "MetricProvider" THEN cls.metric_name = NoName
    ELSE \/ /\ m.metric_fn_type.v \in {"map_condition_fn", "window_condition_fn"}
            /\ cls.condition_metric_name = NoName
         \/ /\ m.metric_fn_type.v \in {"map_fn", "window_fn"}
            /\ cls.function_metric_name = NoName

\* C11: the definition of a provider class that has a method tagged with a
\* partial function kind, but not the base metric name attribute the method
\* needs, raises an error; the method is never silently skipped.
C11_MissingBaseNameRaises ==
    lastDef.defined =>
        \A i \in 1..Len(lastDef.cls.methods) :
            LET m == lastDef.cls.methods[i]
            IN  (IsPartialKind(m.metric_fn_type) /\ LacksBaseName(lastDef.cls, m))
                    => lastDef.error # "none"

\* C12: after the definition of a class that uses the generic hook, a method
\* tagged with the value kind is the provider registered under the bare metric
\* name, and a method tagged with a partial kind is the provider registered
\* under the metric name followed by "." and the kind.
C12_GenericHookNames ==
    (lastDef.defined /\ lastDef.error = "none" /\ lastDef.cls.base = "MetricProvider"
        /\ lastDef.cls.metric_name # NoName) =>
    \A i \in 1..Len(lastDef.cls.methods) :
        LET m == lastDef.cls.methods[i]
            name == lastDef.cls.metric_name
        IN  /\ m.metric_fn_type.v = "value" =>
                EntryAt(registry, Key(name, m.metric_engine)).metric_provider = m
            /\ IsPartialKind(m.metric_fn_type) =>
                EntryAt(registry, Key(name \o <<".", m.metric_fn_type.v>>,
                                      m.metric_engine)).metric_provider = m

\* the set of the declarations column_function_partial and
\* column_condition_partial list as supported
SupportedDeclarations ==
    {Decl("column_function_partial", "PandasExecutionEngine", "map_series"),
     Decl("column_function_partial", "SqlAlchemyExecutionEngine", "map_fn"),
     Decl("column_function_partial", "SparkDFExecutionEngine", "map_fn"),
     Decl("column_function_partial", "SparkDFExecutionEngine", "window_fn"),
     Decl("column_condition_partial", "PandasExecutionEngine", "map_condition_series"),
     Decl("column_condition_partial", "SqlAlchemyExecutionEngine", "map_condition_fn"),
     Decl("column_condition_partial", "SparkDFExecutionEngine", "map_condition_fn"),
     Decl("column_condition_partial", "SparkDFExecutionEngine", "window_condition_fn")}

\* C16: the declaration of a column partial with an unsupported (engine, partial
\* kind) pair raises, and one with a supported pair completes and yields a
\* method tagged with its engine, its function kind and the column domain.
C16_DeclarationByCombination ==
    lastDecl.decl.decorator \in {"column_function_partial", "column_condition_partial"} =>
        IF lastDecl.decl \in SupportedDeclarations
        THEN /\ ~lastDecl.raised
             /\ lastDecl.fn.metric_engine = lastDecl.decl.engine
             /\ lastDecl.fn.metric_fn_type.v = lastDecl.decl.fn_type
             /\ lastDecl.fn.domain_type = "column"
        ELSE lastDecl.raised

\* C17: the hooks issue at most one register call per (metric name, engine) key:
\* no call is issued for a key that an earlier call has registered.
C17_OneRegisterCallPerKey ==
    \A i \in 1..Len(lastDef.log) : lastDef.log[i].prior = NoEntry

\* the function kinds of the specification
SixKinds == MetricPartialFunctionTypes \cup {"value"}

\* C25: every entry of the registry carries a function kind that is one of value,
\* map_fn, map_condition_fn, window_fn, window_condition_fn and aggregate_fn.
C25_RegisteredKindIsOneOfSix ==
    \A key \in DOMAIN registry : registry[key].metric_fn_type.v \in SixKinds

(***************************************************************************)
(* Claims about the composition layer and the derived-metric providers     *)
(***************************************************************************)
\* the rows on which the condition the composed provider returned is true, in
\* row order
UnexpectedRows ==
    IF partial.ret.arity = 3
    THEN LET mask == partial.ret.mask
             Keep(r) == \E i \in 1..Len(mask) : mask[i].id = r.id /\ mask[i].val
         IN  SelectSeq(TableRows(dataset), Keep)
    ELSE Where(get_compute_domain(dataset, partial.ret.compute).data, partial.ret.expr)

\* the compute domain kwargs a derived provider resolves from its own domain
\* kwargs differ from those recorded with the condition
DomainsDiffer ==
    partial.ret.compute # get_compute_domain(dataset, derived.domain).compute

\* C5 as stated: without a decorator keyword the null-filter flag is true for a
\* condition-shaped partial and false for a function-shaped one, whatever the
\* provider class.
C5_FlagDefaultsByShape ==
    (partial.shape # "none" /\ partial.kw = "absent")
        => (partial.filter <=> partial.shape = "condition")

\* C5, amended: without a decorator keyword the flag is the provider class's
\* filter_column_isnull attribute when the class has one, and only otherwise
\* true for a condition-shaped partial and false for a function-shaped one.
C5_FlagDefaultsByShapeUnlessClassSets ==
    (partial.shape # "none" /\ partial.kw = "absent")
        => (partial.filter <=>
                IF partial.attr # "absent" THEN partial.attr = "True"
                ELSE partial.shape = "condition")

\* a function-shaped SQL partial of a class whose attribute is True filters nulls
C5_Witness ==
    /\ partial.shape = "function"
    /\ partial.kind[1] = "SqlAlchemyExecutionEngine"
    /\ partial.kw = "absent"
    /\ partial.attr = "True"
    /\ partial.filter
    /\ "notnull" \in RowConditionOf(partial.ret.compute)

CountOf(out) ==
    IF out.err # "none" THEN -1
    ELSE IF out.agg = NoAggregate THEN out.n
    ELSE LET v == AggregateValue(dataset, out.agg)
         IN  IF v.null THEN -1 ELSE v.n

\* C7: the unexpected_count provider, given the value the condition provider
\* returned, yields the number of rows on which the condition is true, on each
\* of the three engines.
C7_UnexpectedCountIsK ==
    (derived.metric = "unexpected_count" /\ derived.tuple)
        => CountOf(derived.out) = Len(UnexpectedRows)

\* C8: the unexpected_values provider, called with the domain kwargs of the
\* condition, returns the column values of the unexpected rows in row order:
\* all of them for COMPLETE, else the first partial_unexpected_count of them.
C8_UnexpectedValuesInRowOrder ==
    (/\ derived.metric = "unexpected_values"
     /\ derived.tuple
     /\ derived.domain = partial.domain)
        => /\ derived.out.err = "none"
           /\ derived.out.items =
                IF derived.rf.result_format = "COMPLETE" THEN Cols(UnexpectedRows)
                ELSE Slice(Cols(UnexpectedRows), derived.rf.partial_unexpected_count)

\* C9: the in-memory unexpected_value_counts provider, once it has selected the
\* unexpected values, raises "Unable to compute value counts" only when both
\* groupings failed, and returns without error when one of them succeeded.
C9_ValueCountsFailOnlyWhenBothGroupingsFail ==
    (/\ derived.metric = "unexpected_value_counts"
     /\ partial.kind[1] = "PandasExecutionEngine"
     /\ BooleanIndex(PandasDomainData(dataset, partial.attr, derived.domain),
                     MetricValue(derived.tuple, partial.ret)).err = "none")
        => /\ derived.out.err = "MetricError" => derived.grouping = "neither"
           /\ derived.grouping # "neither" => derived.out.err = "none"

\* the rows the condition of the last composed call applies to
ConditionData ==
    IF partial.ret.arity = 3
    THEN LET data == get_compute_domain(dataset, partial.domain).data
         IN  IF partial.filter THEN NotNullRows(data) ELSE data
    ELSE get_compute_domain(dataset, partial.ret.compute).data

\* the condition the composed provider returned is true on row r
ConditionTrueOn(r) ==
    IF partial.ret.arity = 3
    THEN \E i \in 1..Len(partial.ret.mask) :
            partial.ret.mask[i].id = r.id /\ partial.ret.mask[i].val
    ELSE EvalExpr(partial.ret.expr, ConditionData, r) = "T"

\* a derived provider failed on the tuple it was handed because it took the
\* tuple for the condition itself
TookTupleForCondition ==
    /\ partial.kind[1] = "PandasExecutionEngine"
    /\ derived.tuple
    /\ \/ derived.metric = "unexpected_count" /\ derived.out.err = "ValueError"
       \/ /\ derived.metric \in {"unexpected_index_list", "unexpected_value_counts",
                                 "unexpected_rows"}
          /\ derived.out.err = "KeyError"

\* C14: a composed provider, function- or condition-shaped, returns a triple on
\* the in-memory engine and a pair on the SQL and the Spark engine, and every
\* derived provider unpacks the condition value with the arity its engine's
\* condition provider returns.
C14_TupleArityByEngine ==
    /\ partial.shape # "none" =>
            partial.ret.arity =
                IF partial.kind[1] = "PandasExecutionEngine" THEN 3 ELSE 2
    /\ derived.metric # "none" => ~TookTupleForCondition

\* C15: on every engine and for every supported condition kind, the condition a
\* condition partial returns is true on a non-null row exactly when the author's
\* function is false on that row.
C15_SinglePolarity ==
    partial.shape = "condition" =>
        \A i \in 1..Len(ConditionData) :
            LET r == ConditionData[i]
            IN  r.col # 0 =>
                    (ConditionTrueOn(r) <=> AuthorEval(authored, ConditionData, r) = "F")

\* a null-filtering SQL condition over a row that does not meet the expectation
\* and a row that meets it
C15_Witness ==
    /\ partial.shape = "condition"
    /\ partial.kind[1] = "SqlAlchemyExecutionEngine"
    /\ partial.filter
    /\ dataset = <<1, 2>>
    /\ authored.kind = "rowwise"
    /\ authored.meets[1] = "F"
    /\ authored.meets[2] = "T"
    /\ ConditionTrueOn(ConditionData[1])
    /\ ~ConditionTrueOn(ConditionData[2])

\* the row is null in the selected column
IsNull(r) == r.col = 0

\* C21: when the flag of a condition partial is true, a row that is null in the
\* selected column is not among the rows the condition is true on, and no
\* unexpected_count, unexpected_values or unexpected_rows result reports it.
C21_NullRowsNeverUnexpected ==
    (partial.shape = "condition" /\ partial.filter) =>
        /\ \A i \in 1..Len(UnexpectedRows) : ~IsNull(UnexpectedRows[i])
        /\ \A i \in 1..Len(ConditionData) :
                IsNull(ConditionData[i]) => ~ConditionTrueOn(ConditionData[i])
        /\ derived.out.err = "none" =>
            /\ derived.metric = "unexpected_count" =>
                    CountOf(derived.out) \in
                        {-1, Cardinality({i \in 1..Len(dataset) :
                                /\ dataset[i] # 0
                                /\ \E j \in 1..Len(UnexpectedRows) :
                                        UnexpectedRows[j].id = i})}
            /\ derived.metric = "unexpected_values" =>
                    \A i \in 1..Len(derived.out.items) : derived.out.items[i] # 0
            /\ derived.metric = "unexpected_rows" =>
                    \A i \in 1..Len(derived.out.items) : derived.out.items[i].a # 0

\* a null-filtering SQL condition over a null row and a row that does not meet
\* the expectation, an author's function that is false on null: the values
\* provider returns the one non-null value
C21_Witness ==
    /\ partial.shape = "condition"
    /\ partial.kind[1] = "SqlAlchemyExecutionEngine"
    /\ partial.filter
    /\ dataset = <<0, 1>>
    /\ authored.kind = "rowwise"
    /\ authored.meets[0] = "F"
    /\ authored.meets[1] = "F"
    /\ derived.metric = "unexpected_values"
    /\ derived.out.err = "none"
    /\ derived.out.items = <<1>>

\* C22: the unexpected_rows provider, called with the domain kwargs of the
\* condition, returns the full rows the condition is true on: all of them for
\* COMPLETE, else the first partial_unexpected_count of them in row order, on
\* every engine.
C22_UnexpectedRowsTruncatedLikeValues ==
    (/\ derived.metric = "unexpected_rows"
     /\ derived.domain = partial.domain
     /\ partial.kind[1] = "PandasExecutionEngine" =>
            /\ ~derived.tuple
            /\ partial.filter = DerivedFilter(partial.attr))
        => /\ derived.out.err = "none"
           /\ derived.out.items =
                IF derived.rf.result_format = "COMPLETE" THEN Tuples(UnexpectedRows)
                ELSE Slice(Tuples(UnexpectedRows), derived.rf.partial_unexpected_count)

\* the histogram of the unexpected values, the groups in order of first appearance
Histogram == GroupBy(Cols(UnexpectedRows))

\* C23: a result of the unexpected_value_counts provider is the whole histogram
\* for COMPLETE, and otherwise its first partial_unexpected_count entries in the
\* order the engine hands out the groups, on every engine.
C23_ValueCountsSliced ==
    (derived.metric = "unexpected_value_counts" /\ derived.out.err = "none") =>
        LET n == derived.rf.partial_unexpected_count
            orders == {Histogram, Reverse(Histogram), value_counts(Cols(UnexpectedRows))}
        IN  IF derived.rf.result_format = "COMPLETE"
            THEN derived.out.items \in orders
            ELSE derived.out.items \in {Slice(h, n) : h \in orders}

\* C24: a Spark window condition partial returns the plain negation of the
\* author's expression, and with the flag on its compute domain kwargs are the
\* domain kwargs of the call with the column not-null row condition added; a
\* Spark row-wise condition partial returns the compute domain kwargs of the
\* unfiltered domain and carries the not-null test in its expression.
C24_SparkWindowFiltersByDomain ==
    (partial.shape = "condition" /\ partial.kind[1] = "SparkDFExecutionEngine") =>
        /\ partial.ret.expr.author = authored
        /\ IF partial.kind[2] = "window_condition_fn"
           THEN /\ ~partial.ret.expr.notnull
                /\ partial.ret.compute =
                        IF partial.filter THEN add_column_row_condition(partial.domain)
                        ELSE get_compute_domain(dataset, partial.domain).compute
           ELSE /\ partial.ret.expr.notnull = partial.filter
                /\ partial.ret.compute = get_compute_domain(dataset, partial.domain).compute

\* a null-filtering Spark window condition over a table with a null row
C24_Witness ==
    /\ partial.shape = "condition"
    /\ partial.kind = <<"SparkDFExecutionEngine", "window_condition_fn">>
    /\ partial.filter
    /\ \E i \in 1..Len(dataset) : dataset[i] = 0
    /\ "notnull" \in RowConditionOf(partial.ret.compute)
    /\ ~partial.ret.expr.notnull

\* C26: the flag of a composed partial is the value given to the decorator if
\* there is one, else the provider class's filter_column_isnull attribute if it
\* has one, else true for a condition partial and false for a function partial.
C26_FlagPrecedence ==
    partial.shape # "none" =>
        (partial.filter <=>
            IF partial.kw # "absent" THEN partial.kw = "True"
            ELSE IF partial.attr # "absent" THEN partial.attr = "True"
            ELSE partial.shape = "condition")

\* the decorator says False, the class says True: the SQL condition carries no
\* not-null conjunct
C26_Witness ==
    /\ partial.shape = "condition"
    /\ partial.kind[1] = "SqlAlchemyExecutionEngine"
    /\ partial.kw = "False"
    /\ partial.attr = "True"
    /\ ~partial.filter
    /\ ~partial.ret.expr.notnull

\* the in-memory derived providers that index data with the condition
MaskIndexingNames ==
    {"unexpected_values", "unexpected_index_list", "unexpected_value_counts",
     "unexpected_rows"}

\* C27: on the in-memory engine, the data a derived provider indexes with the
\* condition covers the same rows as the condition's mask.  (The values provider
\* takes the condition out of the triple, the others are handed the mask.)
C27_MaskAndDataCoverSameRows ==
    (/\ partial.shape = "condition"
     /\ partial.kind[1] = "PandasExecutionEngine"
     /\ derived.metric \in MaskIndexingNames
     /\ derived.tuple <=> derived.metric = "unexpected_values"
     /\ derived.domain = partial.domain)
        => Ids(PandasDomainData(dataset, partial.attr, derived.domain))
                = Ids(partial.ret.mask)

\* C28: on the SQL engine the providers of unexpected_values,
\* unexpected_value_counts and unexpected_rows fail with the assertion error
\* exactly when their domain kwargs differ from those of the condition,
\* whatever the flag.
C28_AssertionOnlyForDifferentDomains ==
    (/\ partial.shape = "condition"
     /\ partial.kind[1] = "SqlAlchemyExecutionEngine"
     /\ derived.metric \in {"unexpected_values", "unexpected_value_counts",
                            "unexpected_rows"})
        => (derived.out.err = "AssertionError" <=> derived.domain # partial.domain)

\* a null-filtering SQL condition and the rows provider called with the same
\* domain kwargs, over a null row and an unexpected row
C28_Witness ==
    /\ partial.shape = "condition"
    /\ partial.kind[1] = "SqlAlchemyExecutionEngine"
    /\ partial.filter
    /\ derived.metric = "unexpected_rows"
    /\ derived.domain = partial.domain
    /\ \E i \in 1..Len(dataset) : dataset[i] = 0
    /\ derived.out.err = "none"
    /\ Len(derived.out.items) = 1

(***************************************************************************)
(* Claims about a whole program                                            *)
(***************************************************************************)
\* the function kind an entry is registered with is one of the partial kinds
RegisteredAsPartial(entry) == entry.metric_fn_type.v \in MetricPartialFunctionTypes

\* C13: the resolver adds a dependency under the role "metric_partial_fn", equal
\* to the requested configuration, exactly when the function kind the requested
\* metric is registered with is a partial kind, and none when it is value.
C13_PartialDependencyByRegisteredKind ==
    resolvedOf # NoWork =>
        \A key \in DOMAIN registry :
            key[1] = resolvedOf.cfg.name =>
                /\ "metric_partial_fn" \in DOMAIN deps <=> RegisteredAsPartial(registry[key])
                /\ "metric_partial_fn" \in DOMAIN deps =>
                        deps["metric_partial_fn"] = resolvedOf.cfg

\* C18: the registry changes only in the step that ends a class statement, the
\* registration hook; a resolution or a provider call leaves it as it is; and an
\* entry, once registered, is neither replaced nor removed.
C18_RegistryWrittenByHooksOnly ==
    [][/\ registry' # registry =>
            body.open /\ lastDef'.defined /\ classCount' = classCount + 1
       /\ \A k \in DOMAIN registry :
            k \in DOMAIN registry' /\ registry'[k] = registry[k]]_vars

\* a resolution and provider calls after a class has registered its metrics
C18_Witness ==
    /\ registry # EmptyRegistry
    /\ resolvedOf # NoWork
    /\ partial.shape = "condition"
    /\ derived.metric = "unexpected_values"
    /\ derived.out.err = "none"

(***************************************************************************)
(* Claims about the ExecutionEnvironment and the stores                    *)
(***************************************************************************)
\* C29: after an ExecutionEnvironment was constructed with a data_connectors
\* mapping, the caller's mapping is as it was passed, and config returns under
\* "data_connectors" a mapping equal to the configurations that were passed.
C29_ConfigReturnsPassedConfigurations ==
    envObj.given =>
        /\ envObj.after = envObj.passed
        /\ (configRead.read /\ connectorDict = envObj.after) =>
                configRead.data_connectors = envObj.passed

\* the effective serialization type of the last get is that of the most recent
\* set on its key, and it is None or "json"
SameTypeRoundTrip ==
    /\ lastGet.err # "not called"
    /\ lastGet.key \in StringKeys
    /\ recent[lastGet.key].set
    /\ EffectiveType(store, lastGet.t) = EffectiveType(store, recent[lastGet.key].t)
    /\ EffectiveType(store, lastGet.t) \in {"None", "json"}

\* a set whose key fails validation raises before anything is serialized or
\* written
InvalidKeyWritesNothing ==
    (lastSet.err # "not called" /\ lastSet.key \notin StringKeys) =>
        /\ lastSet.err = "AssertionError"
        /\ ~lastSet.serialized
        /\ ~lastSet.wrote

\* C30 as stated: get(k, t) returns the value of the most recent set(k, v, t),
\* for t None or "json"; and a set with an invalid key writes nothing.
C30_GetReturnsValueSet ==
    /\ (SameTypeRoundTrip /\ lastGet.t = recent[lastGet.key].t) =>
            lastGet.err = "none" /\ lastGet.value = recent[lastGet.key].value
    /\ InvalidKeyWritesNothing

\* the value json.loads(json.dumps(v)) of a value json.dumps accepts
JsonRoundTrip(v) ==
    IF v.ty = "tuple" THEN PyValue("list", 0, "list", v.items) ELSE v

\* C30, amended: when the get and the most recent set on its key have the same
\* effective serialization type (the argument, or the store's own when the
\* argument is None), get returns the value that was set if that type is None,
\* and what it reads back from its JSON text if it is "json": the value itself,
\* but a list in place of a tuple; and a set with an invalid key writes nothing.
C30_GetReturnsRoundTripOfValueSet ==
    /\ SameTypeRoundTrip =>
            /\ lastGet.err = "none"
            /\ lastGet.value =
                    IF EffectiveType(store, lastGet.t) = "json"
                    THEN JsonRoundTrip(recent[lastGet.key].value)
                    ELSE recent[lastGet.key].value
    /\ InvalidKeyWritesNothing

\* a tuple set as JSON in a store that already holds a value, read back as a
\* list, after a set with a key that is no str has been refused
C30_Witness ==
    /\ SameTypeRoundTrip
    /\ lastGet.t = "json"
    /\ recent[lastGet.key].value.ty = "tuple"
    /\ lastGet.value.ty = "list"
    /\ lastSet.key \notin StringKeys
    /\ lastSet.err = "AssertionError"
    /\ backend[lastGet.key] = PyStr(1, "list", <<1>>)

====
